---- MODULE Spec2Model ----
(***************************************************************************)
(* Model of the CSV-to-DynamoDB parser lambda                              *)
(* (lambdas/parser/src/index.ts): the handler, CSVToDynamoImporter and its *)
(* collaborators (DynamoDB DescribeTable / BatchWriteItem, S3 GetObject,   *)
(* the csv parser and the retry timer).                                    *)
(*                                                                         *)
(* The lambda is a single async flow.  Every action below is one           *)
(* run-to-completion segment of it: the code from one resumption (the      *)
(* invocation, a collaborator's reply, the timer firing) up to the next    *)
(* await or to the end of the handler.                                     *)
(***************************************************************************)
EXTENDS Integers, Sequences, FiniteSets, TLC

VARIABLES
    tableName,          \* process.env.DYNAMO_TABLE_NAME ("" when unset)
    MAX_BATCH_SIZE,     \* module constants, read from the environment at load
    MAX_RETRIES,
    BASE_DELAY_MS,
    event,              \* the S3 event: the sequence of its Records' object keys
    table,              \* the store's table, as DescribeTable describes it
    object,             \* what GetObject returns for the uploaded object
    pc,                 \* where the handler is suspended / how it ended
    partitionKeyName,   \* importer._partitionKeyName
    partitionKeyType,   \* importer._partitionKeyType
    rows,               \* handleEvent: rows
    rowIdx,             \* processRows: number of rows already taken by the for loop
    batchNo,            \* number of batchWriteItems calls made so far
    writeRequests,      \* batchWriteItems: its parameter
    unprocessed,        \* batchWriteItems: unprocessed
    attempt,            \* batchWriteItems: attempt
    inflight,           \* requests sent to a collaborator and not yet answered
    committed,          \* the table: write requests the store has committed
    log,                \* every collaborator call, reply and timer wait, in order
    firstFailure,       \* the first error thrown in the run (NoError if none)
    failedStage,        \* the step of the run in which it was thrown
    raised              \* the error the handler rejected with (NoError if none)

config == <<tableName, MAX_BATCH_SIZE, MAX_RETRIES, BASE_DELAY_MS, event, table, object>>
schema == <<partitionKeyName, partitionKeyType>>
writer == <<writeRequests, unprocessed, attempt>>
vars == <<config, pc, schema, rows, rowIdx, batchNo, writer, inflight,
          committed, log, firstFailure, failedStage, raised>>

----------------------------------------------------------------------------
(* Bounds of the model *)

MaxRows == 3            \* longest decoded input
MaxEnvBatchSize == 2    \* largest DYNAMO_DB_BATCH_SIZE set in the environment
MaxEnvRetries == 2      \* largest DYNAMO_DB_BATCH_MAX_RETRIES set in the environment

\* values of DYNAMO_DB_BATCH_BASE_DELAY_MS in the environment (0: unset)
EnvDelays == {0, 50}

(* Program constants: the defaults of index.ts lines 27-29 *)
DEFAULT_BATCH_SIZE == 25
DEFAULT_MAX_RETRIES == 5
DEFAULT_BASE_DELAY_MS == 200

\* Number(process.env.X) || dflt : an unset variable (NaN) and 0 are falsy.
\* v = 0 stands for both.
EnvNumber(v, dflt) == IF v = 0 THEN dflt ELSE v

----------------------------------------------------------------------------
(* Errors *)

NoError == [name |-> "none", message |-> ""]
Err(n, m) == [name |-> n, message |-> m]

TableNameNotSet == Err("Error", "Environment variable DYNAMO_TABLE_NAME is not set.")
NoPartitionKey == Err("Error", "Unable to determine partition key schema from DynamoDB table.")
NoBody == Err("Error", "S3 response body missing or not a valid stream.")
ParseFailed == Err("Error", "Failed to parse CSV content.")
\* The message is a plain double-quoted string: nothing is interpolated.
RetriesExhausted ==
    Err("Error", "Failed to process ${unprocessed.length} items after ${MAX_RETRIES} retries.")

\* Errors the collaborators throw (SDK clients, csv-parse)
DescribeErrors == {Err("ResourceNotFoundException", "Requested resource not found")}
GetObjectErrors == {Err("NoSuchKey", "The specified key does not exist.")}
BatchWriteErrors == {Err("AccessDeniedException", "not authorized to perform dynamodb:BatchWriteItem")}
CsvErrors == {Err("CsvError", "CSV_QUOTE_NOT_CLOSED")}

----------------------------------------------------------------------------
(* The event *)

\* decodeURIComponent(key.replace(/\+/g, " ")) on the keys of the model
DecodeKey(k) ==
    CASE k = "a.csv" -> "a.csv"
      [] k = "b+c.csv" -> "b c.csv"
      [] k = "d%2Fe.csv" -> "d/e.csv"

\* (variant: the last record of the event is taken)
LastRecord(ev) == ev[Len(ev)]

\* line 69: event.Records[0]
Record(ev) == ev[1]

Events == {<<"a.csv">>, <<"b+c.csv", "a.csv">>}

----------------------------------------------------------------------------
(* Sequences *)

RECURSIVE SelectAt(_, _, _)
\* the subsequence of s at the positions in P, from position i on
SelectAt(s, P, i) ==
    IF i > Len(s) THEN <<>>
    ELSE IF i \in P THEN <<s[i]>> \o SelectAt(s, P, i + 1)
         ELSE SelectAt(s, P, i + 1)

Range(s) == {s[i] : i \in 1..Len(s)}

Min(S) == CHOOSE x \in S : \A y \in S : x <= y
Max(S) == CHOOSE x \in S : \A y \in S : x >= y

\* what Array.prototype.find yields when no element passes the test
Undefined == [undefined |-> TRUE]

----------------------------------------------------------------------------
(* DescribeTable *)

\* Tables the metadata read may describe.  A response without Table (both
\* `response.Table?.KeySchema` and `?.AttributeDefinitions` undefined) behaves
\* like one with empty lists: find yields undefined.
HashKey(n) == [AttributeName |-> n, KeyType |-> "HASH"]
AttrDef(n, t) == [AttributeName |-> n, AttributeType |-> t]
Table(ks, ad) == [KeySchema |-> ks, AttributeDefinitions |-> ad]

DescribeResponses ==
    { Table(<<HashKey("id")>>, <<AttrDef("id", "S")>>),
      Table(<<HashKey("id")>>, <<AttrDef("id", "N")>>),
      Table(<<>>, <<>>) }

\* Every shape of description the response type allows: also a binary hash
\* key, a key schema with a range key before the hash key, with a range key
\* only, with a hash key that has no attribute definition, and with two
\* hash-role elements
RangeKey(n) == [AttributeName |-> n, KeyType |-> "RANGE"]

TableDescriptions ==
    DescribeResponses \cup
    { Table(<<HashKey("id")>>, <<AttrDef("id", "B")>>),
      Table(<<RangeKey("name"), HashKey("id")>>,
            <<AttrDef("name", "S"), AttrDef("id", "N")>>),
      Table(<<RangeKey("name")>>, <<AttrDef("name", "S")>>),
      Table(<<HashKey("id")>>, <<AttrDef("name", "S")>>),
      Table(<<HashKey("name"), HashKey("id")>>,
            <<AttrDef("id", "N"), AttrDef("name", "S")>>) }

\* line 104: KeySchema?.find(k => k.KeyType === "HASH"), the first hit
KeySchemaOf(response) ==
    LET ks == response.KeySchema
        hits == {i \in 1..Len(ks) : ks[i].KeyType = "HASH"}
    IN IF hits = {} THEN Undefined ELSE ks[Min(hits)]

\* lines 106-108: AttributeDefinitions?.find(a => a.AttributeName ===
\* keySchema?.AttributeName); every definition has a name, so nothing is
\* found when keySchema is undefined
AttrDefOf(response) ==
    LET keySchema == KeySchemaOf(response)
        ad == response.AttributeDefinitions
        hits == {i \in 1..Len(ad) : /\ keySchema # Undefined
                                     /\ ad[i].AttributeName = keySchema.AttributeName}
    IN IF hits = {} THEN Undefined ELSE ad[Min(hits)]

\* line 110
SchemaUndetermined(response) ==
    KeySchemaOf(response) = Undefined \/ AttrDefOf(response) = Undefined

----------------------------------------------------------------------------
(* Rows and items *)

\* The rows of the sample file: a numeric key, a key that Number() normalizes,
\* an empty name, an empty key, a key that is no number, a row of empty values
SampleRows ==
    << [id |-> "1", name |-> "Alice"],
       [id |-> "02", name |-> ""],
       [id |-> "", name |-> "Charlie"],
       [id |-> "x7", name |-> "Dora"],
       [id |-> "", name |-> ""] >>

RowAt(i) == SampleRows[((i - 1) % Len(SampleRows)) + 1]

\* Number(value) on the values of the model: isNaN(Number("x7")), and
\* String(Number("02")) = "2"
IsNaN(v) == v \notin {"1", "02", "2"}
StringOfNumber(v) == IF v = "02" THEN "2" ELSE v

\* (variant: every column is coerced like the key column)
CoerceEveryColumn(row) ==
    [key \in {k \in DOMAIN row : row[k] # ""} |->
        IF partitionKeyType = "N" /\ ~IsNaN(row[key])
        THEN [N |-> StringOfNumber(row[key])]
        ELSE [S |-> row[key]]]

\* (variant: the key type is ignored)
KeyAlwaysText(row) ==
    [key \in {k \in DOMAIN row : row[k] # ""} |-> [S |-> row[key]]]

\* (variant: empty values are kept as empty strings)
KeepEmptyColumns(row) ==
    [key \in DOMAIN row |->
        IF key = partitionKeyName /\ row[key] # ""
        THEN IF partitionKeyType = "N" /\ ~IsNaN(row[key])
             THEN [N |-> StringOfNumber(row[key])]
             ELSE [S |-> row[key]]
        ELSE [S |-> row[key]]]

\* mapRowToDynamoItem, lines 223-238
mapRowToDynamoItem(row) ==
    [key \in {k \in DOMAIN row : row[k] # ""} |->
        IF key = partitionKeyName
        THEN IF partitionKeyType = "N" /\ ~IsNaN(row[key])
             THEN [N |-> StringOfNumber(row[key])]
             ELSE [S |-> row[key]]
        ELSE [S |-> row[key]]]

\* { PutRequest: { Item } } for the i-th row; `row` is the identity of the request
WriteRequest(rs, i) == [row |-> i, Item |-> mapRowToDynamoItem(rs[i])]

----------------------------------------------------------------------------
(* The log of collaborator calls, replies and timer waits *)

Ev(o, k, b, its, d) == [op |-> o, key |-> k, batch |-> b, items |-> its, delay |-> d]

DescribeTableCmd == Ev("DescribeTable", "", 0, <<>>, 0)
GetObjectCmd(k) == Ev("GetObject", k, 0, <<>>, 0)
BatchWriteItemCmd(b, its) == Ev("BatchWriteItem", "", b, its, 0)
UnprocessedItems(b, its) == Ev("UnprocessedItems", "", b, its, 0)
SetTimeout(b, d) == Ev("setTimeout", "", b, <<>>, d)
\* a BatchWriteItem the client rejected with the error e (its name in `key`)
Rejected(b, e) == Ev("rejected", e.name, b, <<>>, 0)

----------------------------------------------------------------------------
(* batchWriteItems, lines 252-277 *)

RECURSIVE Pow2(_)
Pow2(n) == IF n <= 0 THEN 1 ELSE 2 * Pow2(n - 1)

\* (variant: the loop runs until nothing is left unprocessed)
LoopUncapped(unp, att) == Len(unp) > 0

\* line 256: the while condition
LoopContinues(unp, att) == Len(unp) > 0 /\ att < MAX_RETRIES

\* (variant: every attempt carries the whole batch again)
ResubmitAll(wr, unp) == wr

\* line 259: what one BatchWriteItemCommand carries
Submission(wr, unp) == unp

\* (variant: the reply's unprocessed items are not read)
IgnoreUnprocessed(returned) == <<>>

\* (variant: the send sits in a try block whose catch backs off and retries)
RejectionRetried(e) == TRUE

\* lines 257-261: the send is awaited outside any try block, so a rejection
\* is not handled inside batchWriteItems
RejectionCaught(e) == FALSE

\* line 263: response.UnprocessedItems?.[table] ?? []
UnprocessedOf(returned) == returned

\* (variant: the backoff is taken after every attempt)
AlwaysRetry(unp) == TRUE

\* line 265
NeedsRetry(unp) == Len(unp) > 0

\* (variant: the exponent is the attempt count before its increment)
DelayFromZero(att) == Pow2(att - 1) * BASE_DELAY_MS

\* line 267
Delay(att) == Pow2(att) * BASE_DELAY_MS

\* (variant: leftover items are not reported)
NeverThrows(unp) == FALSE

\* line 274
ExitThrows(unp) == Len(unp) > 0

----------------------------------------------------------------------------
(* processRows, lines 191-207 *)

\* (variant: unshift instead of push)
UnshiftRow(b, req) == <<req>> \o b

\* (variant: an item without the key attribute is left out)
PushKeyedRow(b, req) ==
    IF partitionKeyName \in DOMAIN req.Item THEN Append(b, req) ELSE b

\* line 196
PushRow(b, req) == Append(b, req)

\* (variant: the batch is flushed one item late)
BatchOverfull(b) == Len(b) > MAX_BATCH_SIZE

\* line 198
BatchFull(b) == Len(b) = MAX_BATCH_SIZE

RECURSIVE FillBatch(_, _, _)
\* The for loop from row i + 1 on with `batch` = b, up to the next
\* batchWriteItems call inside the loop or to the end of the rows.
FillBatch(rs, i, b) ==
    IF i >= Len(rs) THEN [rowIdx |-> i, batch |-> b]
    ELSE LET b2 == PushRow(b, WriteRequest(rs, i + 1))
         IN IF BatchFull(b2) THEN [rowIdx |-> i + 1, batch |-> b2]
            ELSE FillBatch(rs, i + 1, b2)

RECURSIVE RunRows(_, _, _)
\* processRows resumed with `batch` = [] after i rows and n batchWriteItems
\* calls, run up to its next await: the next batch is submitted, or
\* batchWriteItems throws at once, or processRows returns.
RunRows(rs, i, n) ==
    LET f == FillBatch(rs, i, <<>>)
    IN IF ~BatchFull(f.batch) /\ ~(Len(f.batch) > 0)
       THEN [kind |-> "return", rowIdx |-> f.rowIdx, batch |-> <<>>, batchNo |-> n]
       ELSE IF LoopContinues(f.batch, 0)
       THEN [kind |-> "send", rowIdx |-> f.rowIdx, batch |-> f.batch, batchNo |-> n + 1]
       ELSE IF ExitThrows(f.batch)
       THEN [kind |-> "throw", rowIdx |-> f.rowIdx, batch |-> f.batch, batchNo |-> n + 1]
       ELSE RunRows(rs, f.rowIdx, n + 1)

----------------------------------------------------------------------------
(* handler, lines 281-289 *)

\* (variant: the catch block logs and returns)
HandlerSwallows(e) == [pc |-> "done", raised |-> NoError]

\* (variant: the catch block throws an error of its own)
HandlerWraps(e) == [pc |-> "failed", raised |-> Err("Error", "Error while executing the Lambda function")]

\* the catch block: log, then `throw e`
HandlerCatch(e) == [pc |-> "failed", raised |-> e]

\* An error e thrown in step `stage` inside the handler's try block; cause is
\* the error that was thrown first (e itself unless e replaces a caught error).
Throw(stage, e, cause, lg) ==
    /\ pc' = HandlerCatch(e).pc
    /\ raised' = HandlerCatch(e).raised
    /\ firstFailure' = cause
    /\ failedStage' = stage
    /\ inflight' = {}
    /\ log' = lg

\* the handler resolves
Resolve(lg) ==
    /\ pc' = "done"
    /\ inflight' = {}
    /\ log' = lg
    /\ UNCHANGED <<firstFailure, failedStage, raised>>

\* a command is sent and the handler awaits the reply
Await(at, cmd, lg) ==
    /\ pc' = at
    /\ inflight' = {cmd}
    /\ log' = Append(lg, cmd)
    /\ UNCHANGED <<firstFailure, failedStage, raised>>

\* the timer is set and the handler awaits it
Sleep(b, d, lg) ==
    /\ pc' = "sleep"
    /\ inflight' = {}
    /\ log' = Append(lg, SetTimeout(b, d))
    /\ UNCHANGED <<firstFailure, failedStage, raised>>

\* processRows is entered or resumed after i rows
ProcessRows(rs, i, lg) ==
    LET p == RunRows(rs, i, batchNo)
    IN /\ rowIdx' = p.rowIdx
       /\ batchNo' = p.batchNo
       /\ writeRequests' = p.batch
       /\ unprocessed' = p.batch
       /\ attempt' = 0
       /\ CASE p.kind = "send" ->
                 Await("write", BatchWriteItemCmd(p.batchNo, Submission(p.batch, p.batch)), lg)
            [] p.kind = "throw" -> Throw("write", RetriesExhausted, RetriesExhausted, lg)
            [] p.kind = "return" -> Resolve(lg)

\* batchWriteItems at the head of its while loop with the locals unp, att
LoopHead(unp, att, lg) ==
    IF LoopContinues(unp, att)
    THEN /\ Await("write", BatchWriteItemCmd(batchNo, Submission(writeRequests, unp)), lg)
         /\ unprocessed' = unp
         /\ attempt' = att
         /\ UNCHANGED <<writeRequests, rowIdx, batchNo>>
    ELSE IF ExitThrows(unp)
    THEN /\ Throw("write", RetriesExhausted, RetriesExhausted, lg)
         /\ unprocessed' = unp
         /\ attempt' = att
         /\ UNCHANGED <<writeRequests, rowIdx, batchNo>>
    ELSE ProcessRows(rows, rowIdx, lg)

----------------------------------------------------------------------------
(* S3 objects and csv-parse *)

\* A csv text is modelled by what the parser makes of it: the rows it
\* decodes, or the error it throws.
Files == {[i \in 1..n |-> RowAt(i)] : n \in 0..MaxRows}
CsvTexts == {[rows |-> f, error |-> NoError] : f \in Files}
                \cup {[rows |-> <<>>, error |-> e] : e \in CsvErrors}

\* GetObject replies: a body holding a csv text, or no body
NoBodyReply == [hasBody |-> FALSE, content |-> [rows |-> <<>>, error |-> NoError]]
GetObjectResponses == {[hasBody |-> TRUE, content |-> c] : c \in CsvTexts} \cup {NoBodyReply}

\* Files that start anywhere in the sample
Excerpts ==
    UNION {{SubSeq(SampleRows, i, j) :
                j \in (i - 1)..Min({Len(SampleRows), i + MaxRows - 1})} :
            i \in 1..Len(SampleRows)}
ExcerptObjects ==
    {[hasBody |-> TRUE, content |-> [rows |-> f, error |-> NoError]] : f \in Excerpts}
        \cup {NoBodyReply}

\* (variant: the catch block logs and returns no rows)
ParseSwallows(content) == FALSE

\* parseCSV, lines 167-178: the parser's error is caught and replaced
ParseCSVThrows(content) == content.error # NoError
ParseCSVError(content) == ParseFailed
ParseCSV(content) == content.rows

----------------------------------------------------------------------------
(* Initial state: the lambda is loaded and about to be invoked *)

Init ==
    /\ tableName \in {"", "parsed-data"}
    /\ MAX_BATCH_SIZE \in {EnvNumber(v, DEFAULT_BATCH_SIZE) : v \in 0..MaxEnvBatchSize}
    /\ MAX_RETRIES \in {EnvNumber(v, DEFAULT_MAX_RETRIES) : v \in 0..MaxEnvRetries}
    /\ BASE_DELAY_MS \in {EnvNumber(v, DEFAULT_BASE_DELAY_MS) : v \in EnvDelays}
    /\ event \in Events
    /\ table \in DescribeResponses
    /\ object \in GetObjectResponses
    /\ pc = "start"
    /\ partitionKeyName = ""
    /\ partitionKeyType = "S"
    /\ rows = <<>>
    /\ rowIdx = 0
    /\ batchNo = 0
    /\ writeRequests = <<>>
    /\ unprocessed = <<>>
    /\ attempt = 0
    /\ inflight = {}
    /\ committed = {}
    /\ log = <<>>
    /\ firstFailure = NoError
    /\ failedStage = "none"
    /\ raised = NoError

\* The same lambda with one configuration, over every shape of table
\* description and every excerpt of the sample
TablesInit ==
    /\ tableName = "parsed-data"
    /\ MAX_BATCH_SIZE \in {EnvNumber(v, DEFAULT_BATCH_SIZE) : v \in 1..MaxEnvBatchSize}
    /\ MAX_RETRIES = EnvNumber(MaxEnvRetries, DEFAULT_MAX_RETRIES)
    /\ BASE_DELAY_MS = DEFAULT_BASE_DELAY_MS
    /\ event = <<"a.csv">>
    /\ table \in TableDescriptions
    /\ object \in ExcerptObjects
    /\ pc = "start"
    /\ partitionKeyName = ""
    /\ partitionKeyType = "S"
    /\ rows = <<>>
    /\ rowIdx = 0
    /\ batchNo = 0
    /\ writeRequests = <<>>
    /\ unprocessed = <<>>
    /\ attempt = 0
    /\ inflight = {}
    /\ committed = {}
    /\ log = <<>>
    /\ firstFailure = NoError
    /\ failedStage = "none"
    /\ raised = NoError

----------------------------------------------------------------------------
(* mapRowToDynamoItem on its own: any row under any resolved schema *)

CellValues == {"", "1", "02", "x7"}
AnyRows == UNION {[D -> CellValues] : D \in SUBSET {"id", "name"}}

MapInit ==
    /\ tableName = "parsed-data"
    /\ MAX_BATCH_SIZE = DEFAULT_BATCH_SIZE
    /\ MAX_RETRIES = DEFAULT_MAX_RETRIES
    /\ BASE_DELAY_MS = DEFAULT_BASE_DELAY_MS
    /\ event = <<"a.csv">>
    /\ table = Table(<<>>, <<>>)
    /\ object = NoBodyReply
    /\ pc = "map"
    /\ partitionKeyName \in {"id", "name", "pk"}
    /\ partitionKeyType \in {"S", "N", "B"}
    /\ rows \in {<<r>> : r \in AnyRows}
    /\ rowIdx = 0
    /\ batchNo = 0
    /\ writeRequests = <<>>
    /\ unprocessed = <<>>
    /\ attempt = 0
    /\ inflight = {}
    /\ committed = {}
    /\ log = <<>>
    /\ firstFailure = NoError
    /\ failedStage = "none"
    /\ raised = NoError

\* line 195-196: the row is mapped and its put request pushed; run twice on
\* the same row
MapRow ==
    /\ pc \in {"map", "mapped"}
    /\ writeRequests' = PushRow(writeRequests, WriteRequest(rows, 1))
    /\ pc' = IF pc = "map" THEN "mapped" ELSE "mappedTwice"
    /\ UNCHANGED <<config, schema, rows, rowIdx, batchNo, unprocessed, attempt,
                   inflight, committed, log, firstFailure, failedStage, raised>>

MapNext == MapRow

MapSpec == MapInit /\ [][MapNext]_vars

----------------------------------------------------------------------------
(* Actions *)

\* handler: new CSVToDynamoImporter(), handleEvent up to the DescribeTable await
Invoke ==
    /\ pc = "start"
    /\ IF tableName = ""
       THEN Throw("construct", TableNameNotSet, TableNameNotSet, log)
       ELSE Await("describe", DescribeTableCmd, log)
    /\ UNCHANGED <<config, schema, rows, rowIdx, batchNo, writer, committed>>

\* loadPartitionKeyMetadata resumes with the table description, then
\* getCSVFileContent sends GetObject for the first record's object
DescribeTableReplies ==
    /\ pc = "describe"
    /\ LET response == table
       IN IF SchemaUndetermined(response)
          THEN /\ Throw("schema", NoPartitionKey, NoPartitionKey, log)
               /\ UNCHANGED schema
          ELSE /\ partitionKeyName' = KeySchemaOf(response).AttributeName
               /\ partitionKeyType' = AttrDefOf(response).AttributeType
               /\ Await("fetch", GetObjectCmd(DecodeKey(Record(event))), log)
    /\ UNCHANGED <<config, rows, rowIdx, batchNo, writer, committed>>

\* (variant: a failed metadata read is sent again)
DescribeTableRetried ==
    /\ pc = "describe"
    /\ Len(log) < 3
    /\ Await("describe", DescribeTableCmd, log)
    /\ UNCHANGED <<config, schema, rows, rowIdx, batchNo, writer, committed>>

DescribeTableFails ==
    /\ pc = "describe"
    /\ \E e \in DescribeErrors : Throw("schema", e, e, log)
    /\ UNCHANGED <<config, schema, rows, rowIdx, batchNo, writer, committed>>

\* getCSVFileContent resumes with the object, then parseCSV and processRows
\* up to the first BatchWriteItem await
GetObjectReplies ==
    /\ pc = "fetch"
    /\ LET response == object
       IN IF ~response.hasBody
          THEN /\ Throw("fetch", NoBody, NoBody, log)
               /\ UNCHANGED <<rows, rowIdx, batchNo, writer>>
          ELSE IF ParseCSVThrows(response.content)
          THEN /\ Throw("decode", ParseCSVError(response.content), response.content.error, log)
               /\ UNCHANGED <<rows, rowIdx, batchNo, writer>>
          ELSE /\ rows' = ParseCSV(response.content)
               /\ ProcessRows(rows', 0, log)
    /\ UNCHANGED <<config, schema, committed>>

GetObjectFails ==
    /\ pc = "fetch"
    /\ \E e \in GetObjectErrors : Throw("fetch", e, e, log)
    /\ UNCHANGED <<config, schema, rows, rowIdx, batchNo, writer, committed>>

\* The store answers a BatchWriteItem: it commits the submitted requests it
\* does not return as unprocessed.  batchWriteItems resumes at line 263.
BatchWriteReplies ==
    /\ pc = "write"
    /\ \E cmd \in inflight : \E P \in SUBSET (1..Len(cmd.items)) :
          LET returned == SelectAt(cmd.items, P, 1)
              unp == UnprocessedOf(returned)
              lg == Append(log, UnprocessedItems(cmd.batch, returned))
          IN /\ committed' = committed \cup (Range(cmd.items) \ Range(returned))
             /\ IF NeedsRetry(unp)
                THEN /\ unprocessed' = unp
                     /\ attempt' = attempt + 1
                     /\ Sleep(batchNo, Delay(attempt'), lg)
                     /\ UNCHANGED <<writeRequests, rowIdx, batchNo>>
                ELSE LoopHead(unp, attempt, lg)
    /\ UNCHANGED <<config, schema, rows>>

\* (variant: on a rejected write the items written so far are deleted)
BatchWriteFailsRollsBack ==
    /\ pc = "write"
    /\ \E e \in BatchWriteErrors : Throw("write", e, e, Append(log, Rejected(batchNo, e)))
    /\ committed' = {}
    /\ UNCHANGED <<config, schema, rows, rowIdx, batchNo, writer>>

\* The store rejects a BatchWriteItem with an error: nothing is committed
BatchWriteFails ==
    /\ pc = "write"
    /\ \E e \in BatchWriteErrors :
          LET lg == Append(log, Rejected(batchNo, e))
          IN IF RejectionCaught(e)
             THEN /\ attempt' = attempt + 1
                  /\ Sleep(batchNo, Delay(attempt'), lg)
                  /\ UNCHANGED <<writeRequests, unprocessed>>
             ELSE /\ Throw("write", e, e, lg)
                  /\ UNCHANGED writer
    /\ UNCHANGED <<config, schema, rows, rowIdx, batchNo, committed>>

\* The backoff timer fires: batchWriteItems resumes at the head of its loop
TimerFires ==
    /\ pc = "sleep"
    /\ LoopHead(unprocessed, attempt, log)
    /\ UNCHANGED <<config, schema, rows, committed>>

Next ==
    \/ Invoke
    \/ DescribeTableReplies
    \/ DescribeTableFails
    \/ GetObjectReplies
    \/ GetObjectFails
    \/ BatchWriteReplies
    \/ BatchWriteFails
    \/ TimerFires

Spec == Init /\ [][Next]_vars

TablesSpec == TablesInit /\ [][Next]_vars

\* Every awaited promise settles: the clients' calls return or throw, the
\* timer fires, and the event loop then runs the continuation.
LiveSpec == Init /\ [][Next]_vars /\ WF_vars(Next)

----------------------------------------------------------------------------
(* Reading the log *)

EventsOf(o, b) == {i \in 1..Len(log) : log[i].op = o /\ log[i].batch = b}
SubmitsOf(b) == EventsOf("BatchWriteItem", b)
RepliesOf(b) == EventsOf("UnprocessedItems", b)
WaitsOf(b) == EventsOf("setTimeout", b)
Batches == 1..batchNo

\* the items batchWriteItems was called with for batch b: its first submission
BatchItems(b) == log[Min(SubmitsOf(b))].items

\* every reply to batch b so far returned the whole batch as unprocessed
AllRejected(b) == \A i \in RepliesOf(b) : log[i].items = BatchItems(b)

\* no reply so far returned an unprocessed item
AlwaysAccepted == \A i \in 1..Len(log) : log[i].op = "UnprocessedItems" => log[i].items = <<>>

CeilDiv(n, b) == (n + b - 1) \div b

----------------------------------------------------------------------------
(* Claims *)

\* C1: if the store returns the whole batch as unprocessed on every attempt,
\* batchWriteItems fails with the retries-exhausted error after the initial
\* submission plus exactly MAX_RETRIES resubmissions of the batch.
C1_ExhaustedAfterMaxRetriesResubmissions ==
    (pc = "failed" /\ raised = RetriesExhausted /\ AllRejected(batchNo))
        => Cardinality(SubmitsOf(batchNo)) = 1 + MAX_RETRIES

\* C2: the k-th backoff wait of a batch (k = attempt after its increment,
\* 1..MAX_RETRIES) lasts BASE_DELAY_MS * 2^k: the first wait of every batch
\* is 2 * BASE_DELAY_MS and each later wait of the batch is twice the one
\* before it.
C2_BackoffDoubles ==
    /\ \A b \in Batches :
          LET waits == WaitsOf(b)
          IN \A i \in waits :
                LET earlier == {j \in waits : j < i}
                IN /\ Cardinality(earlier) + 1 \in 1..MAX_RETRIES
                   /\ earlier = {} => log[i].delay = 2 * BASE_DELAY_MS
                   /\ earlier # {} => log[i].delay = 2 * log[Max(earlier)].delay
    /\ pc \in {"write", "sleep"} => attempt = Cardinality(WaitsOf(batchNo))

C2_Witness ==
    /\ Cardinality(WaitsOf(1)) >= 2
    /\ WaitsOf(2) # {}

\* C3: once an attempt returns no unprocessed item, batchWriteItems returns
\* with no further wait or submission of that batch: what follows is the
\* first submission of the next batch or the end of the run in success.  A
\* batch accepted on its first attempt is submitted exactly once.
C3_SuccessEndsBatch ==
    \A i \in 1..Len(log) :
        (log[i].op = "UnprocessedItems" /\ log[i].items = <<>>) =>
            /\ \A j \in (i + 1)..Len(log) : log[j].batch # log[i].batch
            /\ i = Len(log) => (pc = "done" /\ raised = NoError)
            /\ i < Len(log) => (log[i + 1].op = "BatchWriteItem"
                                  /\ log[i + 1].batch = log[i].batch + 1)
            /\ i = Min(RepliesOf(log[i].batch)) =>
                  (Cardinality(SubmitsOf(log[i].batch)) = 1 /\ WaitsOf(log[i].batch) = {})

C3_Witness ==
    /\ pc = "done"
    /\ batchNo = 2
    /\ \A b \in Batches : Cardinality(SubmitsOf(b)) = 1 /\ WaitsOf(b) = {}

\* C4: processRows over N rows with batch size B calls batchWriteItems
\* ceil(N / B) times, every batch but the last with exactly B items, the last
\* with 1..B; with an always-accepting store these are all the submissions;
\* no submission is empty or larger than B.
C4_BatchCountAndSizes ==
    /\ \A i \in 1..Len(log) : log[i].op = "BatchWriteItem" =>
          Len(log[i].items) \in 1..MAX_BATCH_SIZE
    /\ pc = "done" =>
          /\ batchNo = CeilDiv(Len(rows), MAX_BATCH_SIZE)
          /\ \A b \in Batches :
                Len(BatchItems(b)) = IF b < batchNo THEN MAX_BATCH_SIZE
                                     ELSE Len(rows) - MAX_BATCH_SIZE * (batchNo - 1)
          /\ AlwaysAccepted =>
                Cardinality({i \in 1..Len(log) : log[i].op = "BatchWriteItem"})
                    = CeilDiv(Len(rows), MAX_BATCH_SIZE)

C4_Witness ==
    /\ pc = "done"
    /\ AlwaysAccepted
    /\ Len(rows) = 3
    /\ MAX_BATCH_SIZE = 2
    /\ Len(BatchItems(1)) = 2
    /\ Len(BatchItems(2)) = 1

RECURSIVE InitialSubmissions(_)
\* the first submissions of batches 1..b, concatenated
InitialSubmissions(b) ==
    IF b = 0 THEN <<>> ELSE InitialSubmissions(b - 1) \o BatchItems(b)

\* C5: the initial submissions of the batches, concatenated in the order
\* they are made, are the items mapped from the decoded rows in row order;
\* when no batch fails every row's item is in exactly one batch.
C5_BatchesInArrivalOrder ==
    /\ \A b \in Batches : \A c \in Batches :
          b < c => Min(SubmitsOf(b)) < Min(SubmitsOf(c))
    /\ LET subs == InitialSubmissions(batchNo)
       IN /\ Len(subs) = rowIdx
          /\ \A k \in 1..Len(subs) :
                /\ subs[k].row = k
                /\ subs[k].Item = mapRowToDynamoItem(rows[k])
    /\ pc = "done" => rowIdx = Len(rows)

C5_Witness ==
    /\ pc = "done"
    /\ Len(rows) = 3
    /\ batchNo = 2
    /\ Len(InitialSubmissions(batchNo)) = 3

\* C6: the first submission of a batch is the whole batch and every later
\* one is exactly the unprocessed set the attempt just before it returned:
\* nothing the store did not return is resubmitted, and nothing from outside
\* the batch is ever submitted for it.
C6_ResubmitOnlyUnprocessed ==
    /\ pc \in {"write", "sleep"} => BatchItems(batchNo) = writeRequests
    /\ \A b \in Batches :
          LET submits == SubmitsOf(b)
              replies == RepliesOf(b)
              first == Min(submits)
              whole == Range(log[first].items)
          IN \A i \in submits :
                /\ Range(log[i].items) \subseteq whole
                /\ i # first =>
                      LET before == {j \in replies : j < i}
                          last == Max(before)
                      IN /\ before # {}
                         /\ log[i].items = log[last].items
                         /\ \A j \in submits : j < i => j < last

C6_Witness ==
    \E i \in SubmitsOf(1) :
        /\ i # Min(SubmitsOf(1))
        /\ Len(log[i].items) = 1
        /\ Len(BatchItems(1)) = 2

\* the batchWriteItems call for batch b has returned
Returned(b) == b < batchNo \/ (b = batchNo /\ pc = "done")

\* C7: batchWriteItems returns only if its last attempt returned no
\* unprocessed item; as the store commits what it does not return, every item
\* of a batch whose call returned is committed, and after a successful run
\* the item of every decoded row is committed.
C7_SuccessMeansCommitted ==
    /\ \A b \in Batches : Returned(b) =>
          /\ RepliesOf(b) # {}
          /\ log[Max(RepliesOf(b))].items = <<>>
          /\ Range(BatchItems(b)) \subseteq committed
    /\ pc = "done" =>
          \A k \in 1..Len(rows) : WriteRequest(rows, k) \in committed

C7_Witness ==
    /\ pc = "done"
    /\ Len(rows) = 3
    /\ WaitsOf(1) # {}
    /\ Cardinality(committed) = 3

\* C8: batches are written one after the other in partition order: at most
\* one request is in flight, and batch k + 1 is first submitted only after
\* the retry loop of batch k, waits included, ended with an empty unprocessed
\* set.
C8_BatchesSequential ==
    /\ Cardinality(inflight) <= 1
    /\ \A i \in 1..(Len(log) - 1) :
          log[i].batch > 0 => log[i].batch <= log[i + 1].batch
    /\ \A b \in Batches : b > 1 =>
          LET first == Min(SubmitsOf(b))
              done == {j \in RepliesOf(b - 1) : j < first /\ log[j].items = <<>>}
          IN /\ done # {}
             /\ \A j \in 1..Len(log) :
                   (log[j].batch = b - 1) => j <= Max(done)

C8_Witness ==
    /\ pc = "write"
    /\ batchNo = 2
    /\ Cardinality(WaitsOf(1)) >= 2
    /\ Cardinality(inflight) = 1

\* C9: a failure of schema resolution, of the fetch, of decoding or of a batch
\* write aborts the run at once: once something has failed the run is in the
\* failed state, nothing is in flight, there is no further call to a
\* collaborator (no later batch is submitted) and the run never ends in
\* success.
C9_FailureAborts ==
    /\ [](firstFailure # NoError => (pc = "failed" /\ inflight = {}))
    /\ [][firstFailure # NoError => (log' = log /\ pc' = "failed")]_vars
    /\ [][pc = "failed" => (log' = log /\ pc' = "failed")]_vars

C9_Witness ==
    /\ pc = "failed"
    /\ failedStage = "write"
    /\ batchNo = 2
    /\ rowIdx < Len(rows)

Stages == {"schema", "fetch", "decode", "write"}

C11_StepsInOrder ==
    LET resolved == /\ Len(log) >= 1
                    /\ log[1].op = "DescribeTable"
                    /\ \E i \in 1..Len(table.KeySchema) :
                          /\ table.KeySchema[i].KeyType = "HASH"
                          /\ partitionKeyName = table.KeySchema[i].AttributeName
        decoded == /\ Len(log) >= 2
                   /\ log[2].op = "GetObject"
                   /\ object.hasBody
                   /\ object.content.error = NoError
                   /\ rows = object.content.rows
    IN /\ \A i \in 1..Len(log) :
             /\ log[i].op = "DescribeTable" => i = 1
             /\ log[i].op = "GetObject" => (i = 2 /\ resolved)
             /\ log[i].op = "BatchWriteItem" => (i > 2 /\ resolved /\ decoded)
       /\ pc \in {"write", "sleep", "done"} => (resolved /\ decoded)

C11_Witness ==
    /\ Len(log) = 3
    /\ log[1].op = "DescribeTable"
    /\ log[2].op = "GetObject"
    /\ log[3].op = "BatchWriteItem"
    /\ pc = "write"

\* C12: a BatchWriteItem that fails with an error (not with unprocessed
\* items) is fatal at once, whatever the attempt count: no backoff wait and
\* no resubmission follows it, and the run fails with that very error.
C12_RejectionIsFatal ==
    \A i \in 1..Len(log) : log[i].op = "rejected" =>
        /\ i = Len(log)
        /\ log[i - 1].op = "BatchWriteItem"
        /\ log[i - 1].batch = log[i].batch
        /\ pc = "failed"
        /\ failedStage = "write"
        /\ raised \in BatchWriteErrors
        /\ raised.name = log[i].key
        /\ raised = firstFailure

\* a rejection on a retry, after the batch was partly committed
C12_Witness ==
    /\ pc = "failed"
    /\ Len(log) > 0
    /\ log[Len(log)].op = "rejected"
    /\ attempt > 0
    /\ WaitsOf(batchNo) # {}

\* C13: schema resolution fails whenever the declared type of the hash key is
\* neither TEXT ("S") nor NUMERIC ("N"): then nothing is fetched or written,
\* and a resolved partition key type is always "S" or "N".
C13_OnlyTextOrNumericResolves ==
    LET keySchema == KeySchemaOf(table)
        attrDef == AttrDefOf(table)
        otherType == /\ keySchema # Undefined
                     /\ attrDef # Undefined
                     /\ attrDef.AttributeType \notin {"S", "N"}
    IN /\ partitionKeyType \in {"S", "N"}
       /\ otherType =>
             /\ \A i \in 1..Len(log) : log[i].op = "DescribeTable"
             /\ pc \in {"start", "describe", "failed"}
             /\ pc = "failed" => failedStage = "schema"

\* C14: schema resolution succeeds only if the key schema holds exactly one
\* hash-role element and that attribute has a declared type: with no table,
\* with no hash-role element or with more than one, the run fails at the
\* schema step and sends nothing after DescribeTable.
C14_ResolvesOnlyWithOneHashKey ==
    LET ks == table.KeySchema
        hashKeys == {i \in 1..Len(ks) : ks[i].KeyType = "HASH"}
        declared == \E i \in hashKeys : \E j \in 1..Len(table.AttributeDefinitions) :
                        table.AttributeDefinitions[j].AttributeName = ks[i].AttributeName
        resolved == \E i \in 1..Len(log) : log[i].op = "GetObject"
    IN /\ resolved => (Cardinality(hashKeys) = 1 /\ declared)
       /\ (Cardinality(hashKeys) # 1 /\ pc \notin {"start", "describe"}) =>
             (pc = "failed" /\ failedStage = "schema" /\ Len(log) = 1)

\* C15: typing rule of mapRowToDynamoItem, for every row and schema: a
\* non-empty value of the column named like the partition key is tagged N with
\* the normalized number when the key type is N and the value is a number,
\* and S with the original value otherwise; a non-empty value of any other
\* column is tagged S with the original value, whatever the key type.
C15_TypingRule ==
    \A n \in 1..Len(writeRequests) :
        LET row == rows[1]
            Item == writeRequests[n].Item
        IN \A col \in DOMAIN row : row[col] # "" =>
              /\ col \in DOMAIN Item
              /\ IF col = partitionKeyName /\ partitionKeyType = "N"
                    /\ row[col] \in {"1", "02"}
                 THEN Item[col] = [N |-> IF row[col] = "02" THEN "2" ELSE "1"]
                 ELSE Item[col] = [S |-> row[col]]

\* a numeric key that is normalized beside a numeric value in another column
C15_Witness ==
    /\ pc = "mapped"
    /\ partitionKeyName = "id"
    /\ partitionKeyType = "N"
    /\ rows[1] = [id |-> "02", name |-> "1"]
    /\ writeRequests[1].Item = [id |-> [N |-> "2"], name |-> [S |-> "1"]]

C17_EveryRowYieldsOneItem ==
    LET subs == InitialSubmissions(batchNo)
    IN /\ \A k \in 1..rowIdx :
             Cardinality({n \in 1..Len(subs) : subs[n].row = k}) = 1
       /\ \A n \in 1..Len(subs) :
             LET row == rows[subs[n].row]
             IN /\ row[partitionKeyName] = "" => partitionKeyName \notin DOMAIN subs[n].Item
                /\ (\A col \in DOMAIN row : row[col] = "") => DOMAIN subs[n].Item = {}
       /\ (rows # <<>> /\ pc = "failed") => failedStage = "write"
       /\ pc = "done" => Len(subs) = Len(rows)

\* a successful run over a row with an empty key, a keyed row and a row of
\* empty values
C17_Witness ==
    /\ pc = "done"
    /\ partitionKeyName = "id"
    /\ rows = SubSeq(SampleRows, 3, 5)
    /\ Len(InitialSubmissions(batchNo)) = 3
    /\ DOMAIN InitialSubmissions(batchNo)[1].Item = {"name"}
    /\ DOMAIN InitialSubmissions(batchNo)[3].Item = {}

\* C18 as stated: every item submitted to the store contains the attribute
\* named like the partition key, tagged with the resolved key type.
C18_Original ==
    \A i \in 1..Len(log) : log[i].op = "BatchWriteItem" =>
        \A n \in 1..Len(log[i].items) :
            LET Item == log[i].items[n].Item
            IN /\ partitionKeyName \in DOMAIN Item
               /\ DOMAIN Item[partitionKeyName] = {partitionKeyType}

\* C18, amended: a submitted item contains the attribute named like the
\* partition key exactly when the row's value in that column is not empty;
\* the attribute is tagged N when the key type is N and the value is a
\* number, and S in every other case.
C18_KeyAttributeWhenValuePresent ==
    \A i \in 1..Len(log) : log[i].op = "BatchWriteItem" =>
        \A n \in 1..Len(log[i].items) :
            LET Item == log[i].items[n].Item
                value == rows[log[i].items[n].row][partitionKeyName]
            IN /\ partitionKeyName \in DOMAIN Item <=> value # ""
               /\ value # "" =>
                     DOMAIN Item[partitionKeyName] =
                         IF partitionKeyType = "N" /\ value \in {"1", "02"}
                         THEN {"N"} ELSE {"S"}

\* under a numeric key: a submitted batch with an item that has no key
\* attribute and an item whose key fell back to text
C18_Witness ==
    /\ partitionKeyName = "id"
    /\ partitionKeyType = "N"
    /\ rows = SubSeq(SampleRows, 2, 4)
    /\ MAX_BATCH_SIZE = 1
    /\ pc = "done"
    /\ BatchItems(1)[1].Item = [id |-> [N |-> "2"]]
    /\ BatchItems(2)[1].Item = [name |-> [S |-> "Charlie"]]
    /\ BatchItems(3)[1].Item = [id |-> [S |-> "x7"], name |-> [S |-> "Dora"]]

\* C19: batchWriteItems terminates: per batch at most MAX_RETRIES backoff
\* waits and at most MAX_RETRIES resubmissions after the first submission,
\* attempt always within 0..MAX_RETRIES, and when every call returns it ends
\* with nothing unprocessed or with the retries-exhausted error; every step
\* of a run sends, receives or waits once more or ends the run, and every run
\* ends.
C19_WriterTerminates ==
    /\ [](/\ attempt \in 0..MAX_RETRIES
          /\ batchNo <= Len(rows)
          /\ \A b \in Batches :
                /\ Cardinality(WaitsOf(b)) <= MAX_RETRIES
                /\ Cardinality(SubmitsOf(b)) - 1 <= MAX_RETRIES
                /\ Cardinality(RepliesOf(b)) <= Cardinality(SubmitsOf(b))
          /\ (pc = "failed" /\ failedStage = "write"
                /\ \A i \in 1..Len(log) : log[i].op # "rejected")
                => (raised = RetriesExhausted /\ unprocessed # <<>>)
          /\ pc = "done" => unprocessed = <<>>)
    /\ [][Len(log') > Len(log) \/ pc' \in {"done", "failed"}]_vars
    /\ <>(pc \in {"done", "failed"})

\* a batch that used up its retries
C19_Witness ==
    /\ pc = "failed"
    /\ raised = RetriesExhausted
    /\ MAX_RETRIES = 2
    /\ attempt = MAX_RETRIES
    /\ Cardinality(WaitsOf(batchNo)) = MAX_RETRIES

\* C20: every backoff wait of batchWriteItems is followed by a resubmission
\* of the unprocessed items, and the retries-exhausted error is raised
\* directly after a reply with unprocessed items, never after a wait.
C20_WaitThenResubmit ==
    /\ \A i \in 1..Len(log) : log[i].op = "setTimeout" =>
          /\ i = Len(log) => pc = "sleep"
          /\ i < Len(log) => /\ log[i + 1].op = "BatchWriteItem"
                             /\ log[i + 1].batch = log[i].batch
                             /\ log[i + 1].items = log[i - 1].items
    /\ (pc = "failed" /\ raised = RetriesExhausted) =>
          log[Len(log)].op = "UnprocessedItems"

\* C21: in a run DescribeTable and GetObject are each sent at most once, also
\* when they fail: a failure of schema resolution, of the fetch or of decoding
\* ends the run with no further call, and the only command sent more than
\* once with the same items is BatchWriteItem within one batch.
C21_NoRetryButBatchWrite ==
    LET calls(o) == {i \in 1..Len(log) : log[i].op = o}
    IN /\ Cardinality(calls("DescribeTable")) <= 1
       /\ Cardinality(calls("GetObject")) <= 1
       /\ (pc = "failed" /\ failedStage = "schema") => Len(log) = 1
       /\ (pc = "failed" /\ failedStage \in {"fetch", "decode"}) => Len(log) = 2
       /\ \A i \in 1..Len(log) : \A j \in (i + 1)..Len(log) :
             (log[i].op = log[j].op /\ log[i].op \in {"DescribeTable", "GetObject", "BatchWriteItem"}
                /\ Range(log[i].items) \cap Range(log[j].items) # {}) =>
                   (log[i].op = "BatchWriteItem" /\ log[i].batch = log[j].batch)

\* a failed fetch: one DescribeTable, one GetObject, nothing after
C21_Witness ==
    /\ pc = "failed"
    /\ failedStage = "fetch"
    /\ raised \in GetObjectErrors
    /\ Len(log) = 2
    /\ log[2].op = "GetObject"

\* C22: when batchWriteItems gives up, the error it throws carries the number
\* of items still unprocessed, the size of the set the last attempt returned
\* (between 1 and the size of the batch).
C22_ExhaustedCarriesCount ==
    (pc = "failed" /\ failedStage = "write"
        /\ \A i \in 1..Len(log) : log[i].op # "rejected") =>
        /\ Len(unprocessed) \in 1..Len(writeRequests)
        /\ unprocessed = log[Max(RepliesOf(batchNo))].items
        /\ raised.message = "Failed to process " \o ToString(Len(unprocessed))
                               \o " items after " \o ToString(MAX_RETRIES) \o " retries."

\* C23: a failed run does not undo earlier writes: when batch k fails (retries
\* exhausted or a rejected write), every item of batches 1..k-1 and every item
\* of batch k the store accepted is committed and stays so, no row after batch
\* k has been submitted, and the handler fails.
C23_FailureKeepsEarlierWrites ==
    /\ []((pc = "failed" /\ failedStage = "write") =>
            LET k == batchNo
                accepted == UNION {Range(log[i - 1].items) \ Range(log[i].items) :
                                      i \in RepliesOf(k)}
            IN /\ \A b \in 1..(k - 1) : Range(BatchItems(b)) \subseteq committed
               /\ accepted \subseteq committed
               /\ committed \subseteq UNION {Range(BatchItems(b)) : b \in 1..k}
               /\ \A i \in 1..Len(log) : log[i].batch <= k
               /\ Len(InitialSubmissions(k)) = rowIdx
               /\ raised # NoError)
    /\ [][committed \subseteq committed']_vars

\* the second of three batches is rejected: the first stays committed and the
\* third row is never submitted
C23_Witness ==
    /\ pc = "failed"
    /\ failedStage = "write"
    /\ MAX_BATCH_SIZE = 1
    /\ Len(rows) = 3
    /\ batchNo = 2
    /\ rowIdx = 2
    /\ committed = Range(BatchItems(1))
    /\ log[Len(log)].op = "rejected"

\* C24: one invocation ingests one object: the only GetObject of a run names
\* the decoded key of the event's first record, the object of any further
\* record is never fetched, every item written comes from the rows of the
\* fetched object, and the run can succeed all the same.
C24_OnlyFirstRecordFetched ==
    LET fetches == {i \in 1..Len(log) : log[i].op = "GetObject"}
    IN /\ Cardinality(fetches) <= 1
       /\ \A i \in fetches :
             /\ log[i].key = DecodeKey(event[1])
             /\ \A n \in 2..Len(event) : log[i].key # DecodeKey(event[n])
       /\ \A i \in 1..Len(log) : log[i].op = "BatchWriteItem" =>
             /\ fetches # {}
             /\ \A n \in 1..Len(log[i].items) :
                   log[i].items[n].Item =
                       mapRowToDynamoItem(object.content.rows[log[i].items[n].row])

\* an event of two records whose run succeeded after one fetch, of the first
C24_Witness ==
    /\ pc = "done"
    /\ Len(event) = 2
    /\ committed # {}
    /\ log[2] = GetObjectCmd("b c.csv")
    /\ \A i \in 3..Len(log) : log[i].op # "GetObject"

====
